---- MODULE Spec2Model ----
(***************************************************************************)
(* Model of src/lib.rs: DynamicCacheLocal, a cache that stores a value     *)
(* only for keys requested at least twice within a sliding window of the   *)
(* most recent requests.                                                   *)
(***************************************************************************)
EXTENDS Integers, Sequences, FiniteSets, TLC

(* ---------------------------- bounds ---------------------------------- *)
\* number of distinct keys
NumKeys == 4
\* number of get_or_insert calls in one behaviour of Spec
MaxReq == 5
\* number of get_or_insert calls in one behaviour of SpecFixed
MaxReqFixed == 8
\* largest small window length that a caller requests
MaxLen == 3
\* number of set_mem_len, clear_cache and reset_metrics calls in one behaviour
MaxCtl == 2
\* number of threads calling DynamicCache::get_or_insert
NumThreads == 2
\* number of get_or_insert calls in one behaviour of SpecFacade
MaxReqFacade == 2
\* number of set_mem_len and clear_cache calls in one behaviour of SpecFacade
MaxCtlFacade == 2

Keys == 1..NumKeys

Threads == 1..NumThreads

(* ------------------------ usize arithmetic ---------------------------- *)
\* A usize is kept as two base-65536 digits <<high, low>>, so that
\* u32::MAX and values above it are representable.
Usize(n) == <<n \div 65536, n % 65536>>

UsizeLt(a, b) == a[1] < b[1] \/ (a[1] = b[1] /\ a[2] < b[2])

\* u32::MAX as usize = 65535 * 65536 + 65535
U32_MAX == <<65535, 65535>>

\* clamp that applies the upper limit only
Clamp_NoLower(x, lo, hi) == IF UsizeLt(hi, x) THEN hi ELSE x

\* usize::clamp(min, max)
Clamp(x, lo, hi) == IF UsizeLt(x, lo) THEN lo ELSE IF UsizeLt(hi, x) THEN hi ELSE x

\* the window lengths callers ask for: 0 .. MaxLen and 2^32
ReqLens == {Usize(n) : n \in 0..MaxLen} \cup {<<65536, 0>>}

(* --------------------------- Option<Arc<V>> --------------------------- *)
\* Option is a sequence of length at most one
None == <<>>
Some(v) == <<v>>

(* ------------------------------ state --------------------------------- *)
VARIABLES
  map,       \* HashMap<K,(u32, Option<Arc<V>>)>: tracked key -> [counter, val]
  list,      \* VecDeque<(K,u32)>, index 1 is the front (most recent)
  mem_len,   \* usize
  size,      \* usize
  hits,      \* u64
  misses,    \* u64
  panicked,  \* an expect() failed: the call unwound
  hist,      \* keys of the get_or_insert calls made so far, oldest first
  call,      \* the last call: [op, key, len]
  pcall,     \* the call before the last
  ret,       \* Option: the handle the last get_or_insert returned
  produced,  \* how many times the last call ran its producer
  nCalls,    \* get_or_insert calls since construction or the last reset_metrics
  nCtl,      \* set_mem_len, clear_cache and reset_metrics calls made so far
  pre,       \* the engine fields when the last call started
  th,        \* DynamicCache only: per thread, where it is in get_or_insert
  who        \* DynamicCache only: the thread that took the last step, or 0

vars == <<map, list, mem_len, size, hits, misses, panicked, hist, call, pcall, ret,
          produced, nCalls, nCtl, pre, th, who>>

Eng == [map |-> map, list |-> list, mem_len |-> mem_len, size |-> size,
        hits |-> hits, misses |-> misses]

\* the len field of a call that takes no length (its key field is then 0)
NoLen == <<>>

\* a thread that is not inside get_or_insert: got is the handle its last
\* get_or_insert returned, tok the value its last producer yielded, raced
\* whether another thread ran a producer for the same key meanwhile
IdleThread == [pc |-> "idle", key |-> 0, tok |-> 0, raced |-> FALSE, got |-> None]

(* ----------------------------- helpers -------------------------------- *)
\* HashMap::remove
Remove(m, key) == [k \in DOMAIN m \ {key} |-> m[k]]

\* back-eviction that never compares equal: no key is ever forgotten
EvictBack_NeverForget(m, l, s) ==
  LET key == l[Len(l)][1]
      l1  == SubSeq(l, 1, Len(l) - 1)
  IN  IF l = <<>>
        THEN [map |-> m, list |-> l, size |-> s, panicked |-> TRUE]
      ELSE IF key \notin DOMAIN m
        THEN [map |-> m, list |-> l1, size |-> s, panicked |-> TRUE]
      ELSE [map |-> m, list |-> l1, size |-> s, panicked |-> FALSE]

\* back-eviction without the counter comparison: every popped entry
\* forgets its key
EvictBack_AlwaysForget(m, l, s) ==
  LET key == l[Len(l)][1]
      l1  == SubSeq(l, 1, Len(l) - 1)
  IN  IF l = <<>>
        THEN [map |-> m, list |-> l, size |-> s, panicked |-> TRUE]
      ELSE IF key \notin DOMAIN m
        THEN [map |-> m, list |-> l1, size |-> s, panicked |-> TRUE]
      ELSE [map |-> Remove(m, key), list |-> l1,
            size |-> IF m[key].val # None THEN s - 1 ELSE s,
            panicked |-> FALSE]

\* back-eviction that forgets the key but leaves size alone
EvictBack_NoSizeDec(m, l, s) ==
  LET key        == l[Len(l)][1]
      last_count == l[Len(l)][2]
      l1         == SubSeq(l, 1, Len(l) - 1)
  IN  IF l = <<>>
        THEN [map |-> m, list |-> l, size |-> s, panicked |-> TRUE]
      ELSE IF key \notin DOMAIN m
        THEN [map |-> m, list |-> l1, size |-> s, panicked |-> TRUE]
      ELSE IF m[key].counter = last_count
        THEN [map |-> Remove(m, key), list |-> l1, size |-> s,
              panicked |-> FALSE]
      ELSE [map |-> m, list |-> l1, size |-> s, panicked |-> FALSE]

\* the back-eviction rule of get and set_mem_len: pop the back entry and
\* forget its key when the key's counter has not moved since the entry was pushed
EvictBack(m, l, s) ==
  LET key        == l[Len(l)][1]
      last_count == l[Len(l)][2]
      l1         == SubSeq(l, 1, Len(l) - 1)
  IN  IF l = <<>>
        THEN [map |-> m, list |-> l, size |-> s, panicked |-> TRUE]
      ELSE IF key \notin DOMAIN m
        THEN [map |-> m, list |-> l1, size |-> s, panicked |-> TRUE]
      ELSE IF m[key].counter = last_count
        THEN [map |-> Remove(m, key), list |-> l1,
              size |-> IF m[key].val # None THEN s - 1 ELSE s,
              panicked |-> FALSE]
      ELSE [map |-> m, list |-> l1, size |-> s, panicked |-> FALSE]

\* get whose first match arm hands back no value: a cached key reads as a miss
Get_HitReturnsNone(e, key) ==
  LET found   == key \in DOMAIN e.map
      counter == IF found THEN e.map[key].counter + 1 ELSE 0
      r       == None
      m1      == IF found THEN [e.map EXCEPT ![key].counter = counter]
                 ELSE (key :> [counter |-> 0, val |-> None]) @@ e.map
      full    == Usize(Len(e.list)) = e.mem_len
      ev      == IF full THEN EvictBack(m1, e.list, e.size)
                 ELSE [map |-> m1, list |-> e.list, size |-> e.size,
                       panicked |-> FALSE]
  IN  IF ev.panicked
        THEN [map |-> ev.map, list |-> ev.list, mem_len |-> e.mem_len,
              size |-> ev.size, hits |-> e.hits, misses |-> e.misses,
              ret |-> None, panicked |-> TRUE]
      ELSE [map |-> ev.map, list |-> <<<<key, counter>>>> \o ev.list,
            mem_len |-> e.mem_len, size |-> ev.size,
            hits |-> IF r # None THEN e.hits + 1 ELSE e.hits,
            misses |-> IF r # None THEN e.misses ELSE e.misses + 1,
            ret |-> r, panicked |-> FALSE]

\* get that counts nothing when the key is not in the map
Get_NewKeyUncounted(e, key) ==
  LET found   == key \in DOMAIN e.map
      counter == IF found THEN e.map[key].counter + 1 ELSE 0
      r       == IF found THEN e.map[key].val ELSE None
      m1      == IF found THEN [e.map EXCEPT ![key].counter = counter]
                 ELSE (key :> [counter |-> 0, val |-> None]) @@ e.map
      full    == Usize(Len(e.list)) = e.mem_len
      ev      == IF full THEN EvictBack(m1, e.list, e.size)
                 ELSE [map |-> m1, list |-> e.list, size |-> e.size,
                       panicked |-> FALSE]
  IN  IF ev.panicked
        THEN [map |-> ev.map, list |-> ev.list, mem_len |-> e.mem_len,
              size |-> ev.size, hits |-> e.hits, misses |-> e.misses,
              ret |-> None, panicked |-> TRUE]
      ELSE [map |-> ev.map, list |-> <<<<key, counter>>>> \o ev.list,
            mem_len |-> e.mem_len, size |-> ev.size,
            hits |-> IF r # None THEN e.hits + 1 ELSE e.hits,
            misses |-> IF r # None \/ ~found THEN e.misses ELSE e.misses + 1,
            ret |-> r, panicked |-> FALSE]

\* get that looks the key up without comparing keys: a key without a value
\* of its own reads the value of some other cached key
Get_AnyCachedValue(e, key) ==
  LET found   == key \in DOMAIN e.map
      others  == {k \in DOMAIN e.map : e.map[k].val # None}
      counter == IF found THEN e.map[key].counter + 1 ELSE 0
      r       == IF found /\ e.map[key].val # None THEN e.map[key].val
                 ELSE IF others # {}
                   THEN e.map[CHOOSE k \in others : TRUE].val
                 ELSE None
      m1      == IF found THEN [e.map EXCEPT ![key].counter = counter]
                 ELSE (key :> [counter |-> 0, val |-> None]) @@ e.map
      full    == Usize(Len(e.list)) = e.mem_len
      ev      == IF full THEN EvictBack(m1, e.list, e.size)
                 ELSE [map |-> m1, list |-> e.list, size |-> e.size,
                       panicked |-> FALSE]
  IN  IF ev.panicked
        THEN [map |-> ev.map, list |-> ev.list, mem_len |-> e.mem_len,
              size |-> ev.size, hits |-> e.hits, misses |-> e.misses,
              ret |-> None, panicked |-> TRUE]
      ELSE [map |-> ev.map, list |-> <<<<key, counter>>>> \o ev.list,
            mem_len |-> e.mem_len, size |-> ev.size,
            hits |-> IF r # None THEN e.hits + 1 ELSE e.hits,
            misses |-> IF r # None THEN e.misses ELSE e.misses + 1,
            ret |-> r, panicked |-> FALSE]

\* get whose match arms forget *counter += 1
Get_NoCounterInc(e, key) ==
  LET found   == key \in DOMAIN e.map
      counter == IF found THEN e.map[key].counter ELSE 0
      r       == IF found THEN e.map[key].val ELSE None
      m1      == IF found THEN e.map
                 ELSE (key :> [counter |-> 0, val |-> None]) @@ e.map
      full    == Usize(Len(e.list)) = e.mem_len
      ev      == IF full THEN EvictBack(m1, e.list, e.size)
                 ELSE [map |-> m1, list |-> e.list, size |-> e.size,
                       panicked |-> FALSE]
  IN  IF ev.panicked
        THEN [map |-> ev.map, list |-> ev.list, mem_len |-> e.mem_len,
              size |-> ev.size, hits |-> e.hits, misses |-> e.misses,
              ret |-> None, panicked |-> TRUE]
      ELSE [map |-> ev.map, list |-> <<<<key, counter>>>> \o ev.list,
            mem_len |-> e.mem_len, size |-> ev.size,
            hits |-> IF r # None THEN e.hits + 1 ELSE e.hits,
            misses |-> IF r # None THEN e.misses ELSE e.misses + 1,
            ret |-> r, panicked |-> FALSE]

\* get that evicts one entry early: the window holds mem_len - 1 entries
Get_WindowOneShort(e, key) ==
  LET found   == key \in DOMAIN e.map
      counter == IF found THEN e.map[key].counter + 1 ELSE 0
      r       == IF found THEN e.map[key].val ELSE None
      m1      == IF found THEN [e.map EXCEPT ![key].counter = counter]
                 ELSE (key :> [counter |-> 0, val |-> None]) @@ e.map
      full    == Usize(Len(e.list) + 1) = e.mem_len
      ev      == IF full THEN EvictBack(m1, e.list, e.size)
                 ELSE [map |-> m1, list |-> e.list, size |-> e.size,
                       panicked |-> FALSE]
  IN  IF ev.panicked
        THEN [map |-> ev.map, list |-> ev.list, mem_len |-> e.mem_len,
              size |-> ev.size, hits |-> e.hits, misses |-> e.misses,
              ret |-> None, panicked |-> TRUE]
      ELSE [map |-> ev.map, list |-> <<<<key, counter>>>> \o ev.list,
            mem_len |-> e.mem_len, size |-> ev.size,
            hits |-> IF r # None THEN e.hits + 1 ELSE e.hits,
            misses |-> IF r # None THEN e.misses ELSE e.misses + 1,
            ret |-> r, panicked |-> FALSE]

\* DynamicCacheLocal::get
Get(e, key) ==
  LET found   == key \in DOMAIN e.map
      counter == IF found THEN e.map[key].counter + 1 ELSE 0
      r       == IF found THEN e.map[key].val ELSE None
      m1      == IF found THEN [e.map EXCEPT ![key].counter = counter]
                 ELSE (key :> [counter |-> 0, val |-> None]) @@ e.map
      full    == Usize(Len(e.list)) = e.mem_len
      ev      == IF full THEN EvictBack(m1, e.list, e.size)
                 ELSE [map |-> m1, list |-> e.list, size |-> e.size,
                       panicked |-> FALSE]
  IN  IF ev.panicked
        THEN [map |-> ev.map, list |-> ev.list, mem_len |-> e.mem_len,
              size |-> ev.size, hits |-> e.hits, misses |-> e.misses,
              ret |-> None, panicked |-> TRUE]
      ELSE [map |-> ev.map, list |-> <<<<key, counter>>>> \o ev.list,
            mem_len |-> e.mem_len, size |-> ev.size,
            hits |-> IF r # None THEN e.hits + 1 ELSE e.hits,
            misses |-> IF r # None THEN e.misses ELSE e.misses + 1,
            ret |-> r, panicked |-> FALSE]

\* insert without the counter == 0 test: a first-seen key is stored at once
Insert_StoreFirst(m, s, key, v) ==
  IF key \notin DOMAIN m
    THEN [map |-> m, size |-> s, ret |-> None, panicked |-> TRUE]
  ELSE IF m[key].val # None
    THEN [map |-> m, size |-> s, ret |-> m[key].val, panicked |-> FALSE]
  ELSE [map |-> [m EXCEPT ![key].val = Some(v)], size |-> s + 1,
        ret |-> Some(v), panicked |-> FALSE]

\* insert whose promotion branch forgets to store the value
Insert_NeverStore(m, s, key, v) ==
  IF key \notin DOMAIN m
    THEN [map |-> m, size |-> s, ret |-> None, panicked |-> TRUE]
  ELSE IF m[key].counter = 0
    THEN [map |-> m, size |-> s, ret |-> Some(v), panicked |-> FALSE]
  ELSE IF m[key].val # None
    THEN [map |-> m, size |-> s, ret |-> m[key].val, panicked |-> FALSE]
  ELSE [map |-> m, size |-> s + 1, ret |-> Some(v), panicked |-> FALSE]

\* insert that replaces a value already stored for the key
Insert_Overwrite(m, s, key, v) ==
  IF key \notin DOMAIN m
    THEN [map |-> m, size |-> s, ret |-> None, panicked |-> TRUE]
  ELSE IF m[key].counter = 0
    THEN [map |-> m, size |-> s, ret |-> Some(v), panicked |-> FALSE]
  ELSE IF m[key].val # None
    THEN [map |-> [m EXCEPT ![key].val = Some(v)], size |-> s,
          ret |-> Some(v), panicked |-> FALSE]
  ELSE [map |-> [m EXCEPT ![key].val = Some(v)], size |-> s + 1,
        ret |-> Some(v), panicked |-> FALSE]

\* insert that hands back the caller's value when one is already stored
Insert_ReturnsOwn(m, s, key, v) ==
  IF key \notin DOMAIN m
    THEN [map |-> m, size |-> s, ret |-> None, panicked |-> TRUE]
  ELSE IF m[key].counter = 0
    THEN [map |-> m, size |-> s, ret |-> Some(v), panicked |-> FALSE]
  ELSE IF m[key].val # None
    THEN [map |-> m, size |-> s, ret |-> Some(v), panicked |-> FALSE]
  ELSE [map |-> [m EXCEPT ![key].val = Some(v)], size |-> s + 1,
        ret |-> Some(v), panicked |-> FALSE]

\* DynamicCacheLocal::insert
Insert(m, s, key, v) ==
  IF key \notin DOMAIN m
    THEN [map |-> m, size |-> s, ret |-> None, panicked |-> TRUE]
  ELSE IF m[key].counter = 0
    THEN [map |-> m, size |-> s, ret |-> Some(v), panicked |-> FALSE]
  ELSE IF m[key].val # None
    THEN [map |-> m, size |-> s, ret |-> m[key].val, panicked |-> FALSE]
  ELSE [map |-> [m EXCEPT ![key].val = Some(v)], size |-> s + 1,
        ret |-> Some(v), panicked |-> FALSE]

\* the loop of set_mem_len stopping one entry early
RECURSIVE Shrink_OneTooMany(_, _, _, _)
Shrink_OneTooMany(m, l, s, new_len) ==
  IF UsizeLt(new_len, Usize(Len(l) - 1))
    THEN LET ev == EvictBack(m, l, s)
         IN  IF ev.panicked THEN ev
             ELSE Shrink_OneTooMany(ev.map, ev.list, ev.size, new_len)
    ELSE [map |-> m, list |-> l, size |-> s, panicked |-> FALSE]

\* the loop of set_mem_len cutting the window without the eviction rule
Shrink_PopOnly(m, l, s, new_len) ==
  IF UsizeLt(new_len, Usize(Len(l)))
    THEN [map |-> m, list |-> SubSeq(l, 1, new_len[2]), size |-> s,
          panicked |-> FALSE]
    ELSE [map |-> m, list |-> l, size |-> s, panicked |-> FALSE]

\* the while loop of set_mem_len
RECURSIVE Shrink(_, _, _, _)
Shrink(m, l, s, new_len) ==
  IF UsizeLt(new_len, Usize(Len(l)))
    THEN LET ev == EvictBack(m, l, s)
         IN  IF ev.panicked THEN ev
             ELSE Shrink(ev.map, ev.list, ev.size, new_len)
    ELSE [map |-> m, list |-> l, size |-> s, panicked |-> FALSE]

(* ------------------------------ Init ---------------------------------- *)
\* the struct literal of both constructors
Construct(op, len) ==
  /\ map = <<>>
  /\ list = <<>>
  /\ mem_len = Clamp(len, Usize(2), U32_MAX)
  /\ size = 0
  /\ hits = 0
  /\ misses = 0
  /\ panicked = FALSE
  /\ hist = <<>>
  /\ call = [op |-> op, key |-> 0, len |-> len]
  /\ pcall = [op |-> "none", key |-> 0, len |-> NoLen]
  /\ ret = None
  /\ produced = 0
  /\ nCalls = 0
  /\ nCtl = 0
  /\ th = [t \in Threads |-> IdleThread]
  /\ who = 0
  /\ pre = [map |-> <<>>, list |-> <<>>,
            mem_len |-> Clamp(len, Usize(2), U32_MAX), size |-> 0,
            hits |-> 0, misses |-> 0]

\* DynamicCacheLocal::new
New(len) == Construct("new", len)

\* DynamicCacheLocal::with_hasher
WithHasher(len) == Construct("with_hasher", len)

Init == \E len \in ReqLens : New(len) \/ WithHasher(len)

(* ----------------------------- actions -------------------------------- *)
\* Keys are only hashed and compared for equality, so the keys of a behaviour
\* are numbered in the order of their first request.
RECURSIVE MaxKey(_)
MaxKey(h) == IF h = <<>> THEN 0
             ELSE LET m == MaxKey(Tail(h)) IN IF Head(h) > m THEN Head(h) ELSE m

\* DynamicCacheLocal::get_or_insert; the producer of the n-th call yields n
GetOrInsert(key) ==
  /\ ~panicked
  /\ key <= MaxKey(hist) + 1
  /\ LET v   == Len(hist) + 1
         g   == Get(Eng, key)
         run == ~g.panicked /\ g.ret = None
         ins == IF run THEN Insert(g.map, g.size, key, v)
                ELSE [map |-> g.map, size |-> g.size, ret |-> g.ret,
                      panicked |-> g.panicked]
     IN  /\ map' = ins.map
         /\ list' = g.list
         /\ mem_len' = g.mem_len
         /\ size' = ins.size
         /\ hits' = g.hits
         /\ misses' = g.misses
         /\ panicked' = ins.panicked
         /\ ret' = ins.ret
         /\ produced' = IF run THEN 1 ELSE 0
  /\ hist' = Append(hist, key)
  /\ call' = [op |-> "get_or_insert", key |-> key, len |-> NoLen]
  /\ nCalls' = nCalls + 1
  /\ pre' = Eng
  /\ pcall' = call
  /\ UNCHANGED <<th, who>>
  /\ UNCHANGED nCtl

\* DynamicCacheLocal::get_or_insert with a producer that panics: get has
\* returned a miss, f() unwinds before insert is called
GetOrInsertFails(key) ==
  /\ ~panicked
  /\ key <= MaxKey(hist) + 1
  /\ LET g == Get(Eng, key)
     IN  /\ ~g.panicked
         /\ g.ret = None
         /\ map' = g.map
         /\ list' = g.list
         /\ mem_len' = g.mem_len
         /\ size' = g.size
         /\ hits' = g.hits
         /\ misses' = g.misses
  /\ ret' = None
  /\ produced' = 1
  /\ hist' = Append(hist, key)
  /\ call' = [op |-> "get_or_insert_failed", key |-> key, len |-> NoLen]
  /\ nCalls' = nCalls + 1
  /\ pre' = Eng
  /\ pcall' = call
  /\ UNCHANGED <<th, who>>
  /\ UNCHANGED <<panicked, nCtl>>

\* DynamicCacheLocal::set_mem_len
SetMemLen(len) ==
  /\ ~panicked
  /\ nCtl < MaxCtl
  /\ nCtl' = nCtl + 1
  /\ LET new_len == Clamp(len, Usize(2), U32_MAX)
         sh      == Shrink(map, list, size, new_len)
     IN  /\ map' = sh.map
         /\ list' = sh.list
         /\ size' = sh.size
         /\ panicked' = sh.panicked
         /\ mem_len' = IF sh.panicked THEN mem_len ELSE new_len
  /\ call' = [op |-> "set_mem_len", key |-> 0, len |-> len]
  /\ ret' = None
  /\ produced' = 0
  /\ pre' = Eng
  /\ pcall' = call
  /\ UNCHANGED <<th, who>>
  /\ UNCHANGED <<hits, misses, hist, nCalls>>

\* clear_cache that forgets to clear the window
ClearCache_KeepList ==
  /\ ~panicked
  /\ nCtl < MaxCtl
  /\ nCtl' = nCtl + 1
  /\ size' = 0
  /\ map' = <<>>
  /\ call' = [op |-> "clear_cache", key |-> 0, len |-> NoLen]
  /\ ret' = None
  /\ produced' = 0
  /\ pre' = Eng
  /\ pcall' = call
  /\ UNCHANGED <<th, who>>
  /\ UNCHANGED <<list, mem_len, hits, misses, panicked, hist, nCalls>>

\* clear_cache that empties the collections and leaves size alone
ClearCache_KeepSize ==
  /\ ~panicked
  /\ nCtl < MaxCtl
  /\ nCtl' = nCtl + 1
  /\ map' = <<>>
  /\ list' = <<>>
  /\ call' = [op |-> "clear_cache", key |-> 0, len |-> NoLen]
  /\ ret' = None
  /\ produced' = 0
  /\ pre' = Eng
  /\ pcall' = call
  /\ UNCHANGED <<th, who>>
  /\ UNCHANGED <<size, mem_len, hits, misses, panicked, hist, nCalls>>

\* DynamicCacheLocal::clear_cache
ClearCache ==
  /\ ~panicked
  /\ nCtl < MaxCtl
  /\ nCtl' = nCtl + 1
  /\ size' = 0
  /\ map' = <<>>
  /\ list' = <<>>
  /\ call' = [op |-> "clear_cache", key |-> 0, len |-> NoLen]
  /\ ret' = None
  /\ produced' = 0
  /\ pre' = Eng
  /\ pcall' = call
  /\ UNCHANGED <<th, who>>
  /\ UNCHANGED <<mem_len, hits, misses, panicked, hist, nCalls>>

\* reset_metrics that zeroes hits and forgets misses
ResetMetrics_OnlyHits ==
  /\ ~panicked
  /\ nCtl < MaxCtl
  /\ nCtl' = nCtl + 1
  /\ hits' = 0
  /\ call' = [op |-> "reset_metrics", key |-> 0, len |-> NoLen]
  /\ ret' = None
  /\ produced' = 0
  /\ nCalls' = 0
  /\ pre' = Eng
  /\ pcall' = call
  /\ UNCHANGED <<th, who>>
  /\ UNCHANGED <<misses, map, list, mem_len, size, panicked, hist>>

\* DynamicCacheLocal::reset_metrics
ResetMetrics ==
  /\ ~panicked
  /\ nCtl < MaxCtl
  /\ nCtl' = nCtl + 1
  /\ hits' = 0
  /\ misses' = 0
  /\ call' = [op |-> "reset_metrics", key |-> 0, len |-> NoLen]
  /\ ret' = None
  /\ produced' = 0
  /\ nCalls' = 0
  /\ pre' = Eng
  /\ pcall' = call
  /\ UNCHANGED <<th, who>>
  /\ UNCHANGED <<map, list, mem_len, size, panicked, hist>>

Next ==
  \/ \E key \in Keys : Len(hist) < MaxReq /\ GetOrInsert(key)
  \/ \E len \in ReqLens : SetMemLen(len)
  \/ ClearCache
  \/ ResetMetrics

Spec == Init /\ [][Next]_vars

\* the engine with its window length left alone and never cleared
NextFixed == \E key \in Keys : Len(hist) < MaxReqFixed /\ GetOrInsert(key)

SpecFixed == Init /\ [][NextFixed]_vars

\* the engine called with producers that may panic
NextFail ==
  \/ \E key \in Keys : Len(hist) < MaxReq /\ GetOrInsert(key)
  \/ \E key \in Keys : Len(hist) < MaxReq /\ GetOrInsertFails(key)

SpecFail == Init /\ [][NextFail]_vars

(* ------------------------ DynamicCache (facade) ----------------------- *)
\* DynamicCache::get, the first half of DynamicCache::get_or_insert: the
\* lock is held for the engine's get only. On a miss the thread goes on to
\* run its producer, unlocked; the producer of request n yields n.
FacadeGet(t, key) ==
  /\ th[t].pc = "idle"
  /\ key <= MaxKey(hist) + 1
  /\ LET g     == Get(Eng, key)
         tok   == Len(hist) + 1
         rivals == {u \in Threads \ {t} :
                      th[u].pc = "produce" /\ th[u].key = key}
     IN  /\ map' = g.map
         /\ list' = g.list
         /\ mem_len' = g.mem_len
         /\ size' = g.size
         /\ hits' = g.hits
         /\ misses' = g.misses
         /\ ret' = g.ret
         /\ th' = [u \in Threads |->
                     IF u = t
                       THEN IF g.panicked
                              THEN [th[t] EXCEPT !.pc = "panicked"]
                            ELSE IF g.ret # None
                              THEN [IdleThread EXCEPT !.got = g.ret]
                            ELSE [pc |-> "produce", key |-> key, tok |-> tok,
                                  raced |-> rivals # {}, got |-> None]
                     ELSE IF u \in rivals /\ ~g.panicked /\ g.ret = None
                       THEN [th[u] EXCEPT !.raced = TRUE]
                     ELSE th[u]]
  /\ hist' = Append(hist, key)
  /\ call' = [op |-> "facade_get", key |-> key, len |-> NoLen]
  /\ pcall' = call
  /\ produced' = 0
  /\ nCalls' = nCalls + 1
  /\ pre' = Eng
  /\ who' = t
  /\ UNCHANGED <<panicked, nCtl>>

\* DynamicCache::insert, the second half of DynamicCache::get_or_insert:
\* the producer has run and the lock is taken again for the engine's insert.
\* A failed expect() unwinds this thread only (the mutex is not poisoned).
FacadeInsert(t) ==
  /\ th[t].pc = "produce"
  /\ LET ins == Insert(map, size, th[t].key, th[t].tok)
     IN  /\ map' = ins.map
         /\ size' = ins.size
         /\ ret' = ins.ret
         /\ th' = [th EXCEPT ![t] =
                     IF ins.panicked THEN [@ EXCEPT !.pc = "panicked"]
                     ELSE [@ EXCEPT !.pc = "idle", !.got = ins.ret]]
  /\ call' = [op |-> "facade_insert", key |-> th[t].key, len |-> NoLen]
  /\ pcall' = call
  /\ produced' = 1
  /\ pre' = Eng
  /\ who' = t
  /\ UNCHANGED <<list, mem_len, hits, misses, panicked, hist, nCalls, nCtl>>

\* DynamicCache::set_mem_len, called by a further thread
FacadeSetMemLen(len) ==
  /\ nCtl < MaxCtlFacade
  /\ nCtl' = nCtl + 1
  /\ LET new_len == Clamp(len, Usize(2), U32_MAX)
         sh      == Shrink(map, list, size, new_len)
     IN  /\ map' = sh.map
         /\ list' = sh.list
         /\ size' = sh.size
         /\ mem_len' = IF sh.panicked THEN mem_len ELSE new_len
  /\ call' = [op |-> "facade_set_mem_len", key |-> 0, len |-> len]
  /\ pcall' = call
  /\ ret' = None
  /\ produced' = 0
  /\ pre' = Eng
  /\ who' = 0
  /\ UNCHANGED <<hits, misses, panicked, hist, nCalls, th>>

\* DynamicCache::clear_cache, called by a further thread
FacadeClearCache ==
  /\ nCtl < MaxCtlFacade
  /\ nCtl' = nCtl + 1
  /\ size' = 0
  /\ map' = <<>>
  /\ list' = <<>>
  /\ call' = [op |-> "facade_clear_cache", key |-> 0, len |-> NoLen]
  /\ pcall' = call
  /\ ret' = None
  /\ produced' = 0
  /\ pre' = Eng
  /\ who' = 0
  /\ UNCHANGED <<mem_len, hits, misses, panicked, hist, nCalls, th>>

NextFacade ==
  \/ \E t \in Threads, key \in Keys :
       Len(hist) < MaxReqFacade /\ FacadeGet(t, key)
  \/ \E t \in Threads : FacadeInsert(t)
  \/ \E len \in ReqLens : FacadeSetMemLen(len)
  \/ FacadeClearCache

SpecFacade == Init /\ [][NextFacade]_vars

(* ------------------------- reading a state ---------------------------- *)
\* the last call was a get_or_insert that returned
IsGet == call.op = "get_or_insert" /\ ~panicked

\* key k holds a cached value in map m
HasVal(m, k) == k \in DOMAIN m /\ m[k].val # None

\* the keys holding a cached value in map m
Cached(m) == {k \in DOMAIN m : m[k].val # None}

\* the value the producer of the last get_or_insert yields
Fresh == Len(hist)

\* key k was requested before the last call
SeenBefore(k) == \E i \in 1..(Len(hist) - 1) : hist[i] = k

\* the last two calls were get_or_insert for the same key, which was
\* untracked when the first of them started
SecondOfTwo ==
  /\ IsGet
  /\ pcall = call
  /\ call.key \in DOMAIN pre.map
  /\ pre.map[call.key].counter = 0

\* a get on engine e pops a back entry that is the newest one of a key
\* holding a value, so that the key and its value are dropped
BackAgesOut(e) ==
  /\ Usize(Len(e.list)) = e.mem_len
  /\ LET b == e.list[Len(e.list)]
     IN  /\ b[1] \in DOMAIN e.map
         /\ e.map[b[1]].counter = b[2]
         /\ e.map[b[1]].val # None

(* ------------------------------ claims -------------------------------- *)
\* C1: a get_or_insert for a key that has no TrackedKey when the call starts
\* stores no value for the key and does not increase size; the value of the
\* producer goes to the caller only.
C1_FirstSeenNotStored ==
  (IsGet /\ call.key \notin DOMAIN pre.map) =>
    /\ call.key \in DOMAIN map
    /\ map[call.key] = [counter |-> 0, val |-> None]
    /\ size <= pre.size
    /\ produced = 1
    /\ ret = Some(Fresh)
    /\ \A k \in DOMAIN map : map[k].val # Some(Fresh)

\* a key that was evicted earlier is requested again, untracked
C1_Witness ==
  /\ IsGet
  /\ call.key \notin DOMAIN pre.map
  /\ SeenBefore(call.key)
  /\ pre.size > 0

\* C2 as stated: the second of two successive requests for an untracked key
\* leaves size exactly one above its value before that call, and returns the
\* value of the second producer, which is the value stored.
C2_SizeUpByOne ==
  SecondOfTwo =>
    /\ size = pre.size + 1
    /\ ret = Some(Fresh)
    /\ map[call.key].val = Some(Fresh)

\* C2 amended: the second request stores and returns the value of the second
\* producer; size goes up by one, unless that same call ages out the newest
\* entry of another key holding a value, and then size is unchanged.
C2_Promotion ==
  SecondOfTwo =>
    /\ produced = 1
    /\ ret = Some(Fresh)
    /\ call.key \in DOMAIN map
    /\ map[call.key].val = Some(Fresh)
    /\ size = IF BackAgesOut(pre) THEN pre.size ELSE pre.size + 1

\* a promotion that coincides with the eviction of another cached key
C2_Witness == SecondOfTwo /\ BackAgesOut(pre) /\ HasVal(map, call.key)

\* C3: a request for a key that holds a value returns that same stored
\* value (the one its promoting call produced), runs no producer, adds one
\* to hits and leaves misses alone.
C3_HitAfterPromotion ==
  (IsGet /\ HasVal(pre.map, call.key)) =>
    /\ ret = pre.map[call.key].val
    /\ HasVal(map, call.key)
    /\ map[call.key].val = ret
    /\ ret[1] < Fresh
    /\ hist[ret[1]] = call.key
    /\ produced = 0
    /\ hits = pre.hits + 1
    /\ misses = pre.misses

\* the second hit in a row on a promoted key
C3_Witness ==
  /\ IsGet
  /\ HasVal(pre.map, call.key)
  /\ pre.map[call.key].counter >= 2
  /\ hits >= 2

\* the position in hist of the most recent request for key k, 0 if none
LastPos(k) ==
  IF \E i \in 1..Len(hist) : hist[i] = k
    THEN CHOOSE i \in 1..Len(hist) :
           hist[i] = k /\ \A j \in (i + 1)..Len(hist) : hist[j] # k
    ELSE 0

\* the number of requests made after the most recent request for key k
Since(k) == Len(hist) - LastPos(k)

\* n is less than the window length
BelowMemLen(n) == UsizeLt(Usize(n), mem_len)

\* C4: with mem_len fixed and no clear_cache, a key whose most recent request
\* is followed by mem_len or more requests for other keys is gone from the
\* map, and the call that drops a cached key takes its value out of size; the
\* next request for the key is a miss that stores nothing, and the request
\* that finds it tracked with counter 0 is the one that promotes it again.
C4_WindowAging ==
  /\ \A k \in Keys :
       (LastPos(k) > 0 /\ ~BelowMemLen(Since(k))) => k \notin DOMAIN map
  /\ \A k \in Cached(pre.map) :
       (IsGet /\ Usize(Since(k)) = mem_len) =>
         /\ k \notin DOMAIN map
         /\ size = (pre.size - 1) +
                   (IF HasVal(map, call.key) /\ ~HasVal(pre.map, call.key)
                      THEN 1 ELSE 0)
  /\ (IsGet /\ SeenBefore(call.key) /\ call.key \notin DOMAIN pre.map) =>
       /\ map[call.key] = [counter |-> 0, val |-> None]
       /\ produced = 1
       /\ ret = Some(Fresh)
       /\ misses = pre.misses + 1
       /\ hits = pre.hits
  /\ (IsGet /\ call.key \in DOMAIN pre.map
            /\ pre.map[call.key] = [counter |-> 0, val |-> None]) =>
       /\ map[call.key] = [counter |-> 1, val |-> Some(Fresh)]
       /\ misses = pre.misses + 1

\* a key is promoted by requests 1 and 2, left alone for at least mem_len
\* requests, and then requested twice: the last request promotes it again
C4_Witness ==
  LET n == Len(hist)
      k == call.key
  IN  /\ IsGet
      /\ n >= 6
      /\ hist[1] = k /\ hist[2] = k /\ hist[n - 1] = k
      /\ \A i \in 3..(n - 2) : hist[i] # k
      /\ ~BelowMemLen(n - 4)
      /\ pre.map[k] = [counter |-> 0, val |-> None]
      /\ map[k].val = Some(n)

\* C5: with mem_len fixed and no clear_cache, a key stays tracked, and a
\* cached key keeps its value, while fewer than mem_len requests have been
\* made since its most recent request; a request for it in that interval is
\* a hit on that value.
C5_KeptWithinWindow ==
  /\ \A k \in Keys :
       (LastPos(k) > 0 /\ BelowMemLen(Since(k))) => k \in DOMAIN map
  /\ \A k \in Cached(pre.map) :
       (IsGet /\ BelowMemLen(Since(k))) =>
         HasVal(map, k) /\ map[k].val = pre.map[k].val
  /\ \A k \in Cached(pre.map) :
       (IsGet /\ call.key = k) =>
         /\ ret = pre.map[k].val
         /\ produced = 0
         /\ hits = pre.hits + 1

\* a cached key is hit when the entry of its most recent request is the
\* back entry of a full window of length 3
C5_Witness ==
  LET n == Len(hist)
      k == call.key
  IN  /\ IsGet
      /\ mem_len = Usize(3)
      /\ Len(pre.list) = 3
      /\ pre.list[3][1] = k
      /\ HasVal(pre.map, k)
      /\ pre.map[k].counter = pre.list[3][2]
      /\ hist[n - 1] # k /\ hist[n - 2] # k
      /\ ret = pre.map[k].val

\* C6: every get_or_insert adds one to exactly one of hits and misses, so
\* hits + misses is the number of get_or_insert calls since construction or
\* the last reset_metrics, whatever set_mem_len and clear_cache calls
\* come in between.
C6_MetricsAdditive ==
  /\ hits + misses = nCalls
  /\ IsGet =>
       \/ hits = pre.hits + 1 /\ misses = pre.misses
       \/ hits = pre.hits /\ misses = pre.misses + 1

\* hits and misses both counted after a reset_metrics that followed requests
C6_Witness ==
  /\ IsGet
  /\ nCtl >= 1
  /\ nCalls < Len(hist)
  /\ hits >= 1
  /\ misses >= 1

\* C7: window length 3, requests A, A, B, C, D on distinct keys from an
\* empty engine: size is 1 after A, A; after B, C, D the window is
\* D, C, B front to back, A is out of the map and size is 0.
C7_Scenario ==
  \A a, b, c, d \in Keys :
    (Cardinality({a, b, c, d}) = 4 /\ mem_len = Usize(3)) =>
      /\ hist = <<a, a>> =>
           /\ size = 1
           /\ HasVal(map, a)
           /\ list = << <<a, 1>>, <<a, 0>> >>
      /\ hist = <<a, a, b, c>> =>
           /\ size = 1
           /\ map[a].counter = 1
           /\ list[3] = <<a, 1>>
      /\ hist = <<a, a, b, c, d>> =>
           /\ list = << <<d, 0>>, <<c, 0>>, <<b, 0>> >>
           /\ a \notin DOMAIN map
           /\ size = 0

\* the state after A, A, B, C, D
C7_Witness ==
  /\ mem_len = Usize(3)
  /\ hist = <<1, 1, 2, 3, 4>>
  /\ Len(list) = 3

\* C8: size is the number of map entries that hold a value.
C8_SizeIsCount ==
  /\ size = Cardinality(Cached(map))
  /\ size >= 0

\* set_mem_len drops one of two cached keys
C8_Witness ==
  /\ call.op = "set_mem_len"
  /\ pre.size = 2
  /\ size = 1
  /\ ~panicked

\* C9: the window never holds more than mem_len entries; a get pushes one
\* entry to the front, and pops the back entry exactly when the window held
\* mem_len entries when the call started.
C9_WindowBounded ==
  /\ ~UsizeLt(mem_len, Usize(Len(list)))
  /\ IsGet =>
       list = << <<call.key,
                   IF call.key \in DOMAIN pre.map
                     THEN pre.map[call.key].counter + 1 ELSE 0>> >>
              \o (IF Usize(Len(pre.list)) = pre.mem_len
                    THEN SubSeq(pre.list, 1, Len(pre.list) - 1)
                    ELSE pre.list)

\* set_mem_len has just cut the window down to the new length
C9_Witness ==
  /\ call.op = "set_mem_len"
  /\ ~panicked
  /\ Len(list) < Len(pre.list)
  /\ Usize(Len(list)) = mem_len

\* C10: mem_len is within [2, u32::MAX]; new, with_hasher and set_mem_len
\* store the requested length clamped to that range, and nothing fails.
C10_MemLenClamped ==
  /\ ~UsizeLt(mem_len, <<0, 2>>)
  /\ ~UsizeLt(<<65535, 65535>>, mem_len)
  /\ ~panicked
  /\ call.op \in {"new", "with_hasher", "set_mem_len"} =>
       mem_len = IF UsizeLt(call.len, <<0, 2>>) THEN <<0, 2>>
                 ELSE IF UsizeLt(<<65535, 65535>>, call.len) THEN <<65535, 65535>>
                 ELSE call.len

\* a request goes through after set_mem_len(0) has stored 2
C10_Witness ==
  /\ IsGet
  /\ pcall.op = "set_mem_len"
  /\ pcall.len = <<0, 0>>
  /\ mem_len = <<0, 2>>
  /\ Len(list) = 2

\* the keys with an entry among the newest entries of window l that fit
\* a window of length len
NewestKeys(l, len) ==
  {l[i][1] : i \in {j \in 1..Len(l) : ~UsizeLt(len, Usize(j))}}

\* C11: set_mem_len never increases size; the keys it removes are exactly
\* the tracked keys with no entry among the newest clamp(new length) window
\* entries, the entries of the keys that stay are untouched, and size drops
\* by the number of removed keys that held a value.
C11_ResizeMonotone ==
  (call.op = "set_mem_len" /\ ~panicked) =>
    /\ size <= pre.size
    /\ DOMAIN map \subseteq DOMAIN pre.map
    /\ DOMAIN pre.map \ DOMAIN map =
         DOMAIN pre.map \ NewestKeys(pre.list, mem_len)
    /\ \A k \in DOMAIN map : map[k] = pre.map[k]
    /\ size = pre.size - Cardinality(Cached(pre.map) \ DOMAIN map)
    /\ list = SubSeq(pre.list, 1, Len(list))

\* a shrink that pops a stale entry and the newest entry of a cached key
C11_Witness ==
  /\ call.op = "set_mem_len"
  /\ ~panicked
  /\ size < pre.size
  /\ Len(pre.list) >= Len(list) + 2
  /\ Cardinality(DOMAIN pre.map \ DOMAIN map) = 1

\* C12: clear_cache empties the map and the window and zeroes size, leaving
\* hits, misses and mem_len alone; reset_metrics zeroes hits and misses,
\* leaving the map, the window, size and mem_len alone.
C12_ClearAndResetFrames ==
  /\ call.op = "clear_cache" =>
       /\ map = <<>>
       /\ list = <<>>
       /\ size = 0
       /\ hits = pre.hits
       /\ misses = pre.misses
       /\ mem_len = pre.mem_len
  /\ call.op = "reset_metrics" =>
       /\ hits = 0
       /\ misses = 0
       /\ map = pre.map
       /\ list = pre.list
       /\ size = pre.size
       /\ mem_len = pre.mem_len

\* clear_cache on an engine holding a value, with hits and misses counted
\* since an earlier reset_metrics
C12_Witness ==
  /\ call.op = "clear_cache"
  /\ pre.size > 0
  /\ hits > 0
  /\ misses > 0
  /\ nCtl = 2
  /\ nCalls < Len(hist)

\* C13: a get_or_insert whose producer fails records no hit or miss and
\* leaves the map, the window, size, hits and misses as they were.
C13_FailedProducerNoTrace ==
  call.op = "get_or_insert_failed" =>
    /\ map = pre.map
    /\ list = pre.list
    /\ size = pre.size
    /\ hits = pre.hits
    /\ misses = pre.misses

\* the key whose producer yielded value v: the producer of call number v
\* is the producer for the key of that call
ProducedFor(v) == hist[v]

\* C14: with producers whose value is determined by the key, every
\* get_or_insert for key k returns a value produced for k, and every value
\* in the map is stored under the key it was produced for.
C14_ValueBelongsToKey ==
  /\ IsGet =>
       /\ ret # None
       /\ ret[1] \in 1..Len(hist)
       /\ ProducedFor(ret[1]) = call.key
  /\ \A k \in Cached(map) : ProducedFor(map[k].val[1]) = k

\* a hit on a key that was requested first, evicted, created again and
\* promoted by a later call
C14_Witness ==
  /\ IsGet
  /\ produced = 0
  /\ hist[1] = call.key
  /\ map[call.key].counter = 2
  /\ ret[1] >= 5
  /\ ret[1] < Len(hist)

(* --------------------------- facade claims ---------------------------- *)
\* the last step was the insert half of a facade get_or_insert
IsFacadeInsert == call.op = "facade_insert"

\* the last step was an insert that returned, made by a thread whose
\* producer ran while another thread's producer for the same key was pending
RacedInsert ==
  /\ IsFacadeInsert
  /\ th[who].pc = "idle"
  /\ th[who].raced

\* C15: in the facade, whenever a thread's insert step runs after its own
\* get missed, the key is still tracked in the map, so the insert never
\* aborts on "Cache hashmap should have this key".
C15_InsertFindsKey ==
  IsFacadeInsert =>
    /\ call.key \in DOMAIN pre.map
    /\ th[who].pc # "panicked"

\* C16 as stated: after the insert step of a thread that raced on its key,
\* the value stored for the key is the one that insert was passed (the last
\* insert to take the lock wins).
C16_LastInsertWins ==
  RacedInsert /\ HasVal(map, call.key) =>
    map[call.key].val = Some(th[who].tok)

\* C16 amended: the first insert wins. An insert step of a raced thread
\* leaves a value already stored for its key as it is; it stores its own
\* value only when the key has a non-zero counter and no value, and stores
\* nothing when the counter is zero.
C16_FirstInsertWins ==
  RacedInsert =>
    LET k == call.key
    IN  /\ k \in DOMAIN pre.map
        /\ k \in DOMAIN map
        /\ map[k].counter = pre.map[k].counter
        /\ IF pre.map[k].val # None
             THEN map[k].val = pre.map[k].val
           ELSE IF pre.map[k].counter > 0
             THEN map[k].val = Some(th[who].tok)
           ELSE map[k].val = None

\* two threads raced on a key, the first insert stored its value, and the
\* second insert has left that value in place
C16_Witness ==
  /\ RacedInsert
  /\ HasVal(pre.map, call.key)
  /\ map[call.key].val = pre.map[call.key].val
  /\ map[call.key].val # Some(th[who].tok)
  /\ \E u \in Threads \ {who} :
       /\ th[u].raced
       /\ th[u].key = call.key
       /\ map[call.key].val = Some(th[u].tok)

\* C17 as stated: the handle returned to each thread that raced on a key
\* refers to the value of that thread's own producer.
C17_OwnValueReturned ==
  RacedInsert => ret = Some(th[who].tok)

\* C17 amended: the handle returned to a raced thread refers to its own
\* producer's value unless a value is already stored for the key when its
\* insert runs, and then it refers to that stored value; a value stored for
\* the key after the insert is the one the handle refers to.
C17_ReturnedHandle ==
  RacedInsert =>
    LET k == call.key
    IN  /\ ret = IF HasVal(pre.map, k) THEN pre.map[k].val
                 ELSE Some(th[who].tok)
        /\ th[who].got = ret
        /\ HasVal(map, k) => map[k].val = ret

\* a raced thread is handed the value of the other thread's producer
C17_Witness ==
  /\ RacedInsert
  /\ ret # None
  /\ ret # Some(th[who].tok)
  /\ \E u \in Threads \ {who} :
       /\ th[u].key = call.key
       /\ th[u].pc = "idle"
       /\ th[u].got = ret
       /\ ret = Some(th[u].tok)

\* the keys with an entry in window l
WindowKeys(l) == {l[i][1] : i \in 1..Len(l)}

\* C18: the keys of the window entries are exactly the tracked keys, no
\* expect() fails, and the number of tracked keys is at most the number of
\* window entries, which is at most mem_len.
C18_WindowAndMapAgree ==
  /\ ~panicked
  /\ WindowKeys(list) \subseteq DOMAIN map
  /\ DOMAIN map \subseteq WindowKeys(list)
  /\ Cardinality(DOMAIN map) <= Len(list)
  /\ ~UsizeLt(mem_len, Usize(Cardinality(DOMAIN map)))

\* a get on a full window of distinct keys has removed the back key, after
\* set_mem_len and clear_cache calls
C18_Witness ==
  /\ IsGet
  /\ nCtl = 2
  /\ Usize(Len(pre.list)) = pre.mem_len
  /\ pre.list[Len(pre.list)][1] \notin DOMAIN map
  /\ Cardinality(DOMAIN map) = Len(list)
  /\ Len(list) = 3

\* the last call was one that pops window entries, and it returned
IsPop == IsGet \/ (call.op = "set_mem_len" /\ ~panicked)

\* the number of requests made before the last call
NPre == IF call.op = "get_or_insert" THEN Len(hist) - 1 ELSE Len(hist)

\* the positions in pre.list of the entries the last call popped
Popped == {p \in 1..Len(pre.list) : p > Len(list) - (Len(hist) - NPre)}

\* the counter of key k when the last call compared it with a snapshot
CounterAtPop(k) ==
  IF call.op = "get_or_insert" /\ call.key = k
    THEN pre.map[k].counter + 1 ELSE pre.map[k].counter

\* no request for the key of the entry at position p of pre.list was made
\* after the request that pushed the entry, the last call included
NoGetSince(p) ==
  \A j \in (NPre - p + 2)..Len(hist) : hist[j] # pre.list[p][1]

\* C19: window entry i was pushed by the i-th most recent request, and its
\* snapshot equals its key's counter exactly when no later request was for
\* that key; so when get or set_mem_len pops an entry, the counters compare
\* equal exactly when no get for the key came since the entry was pushed,
\* the keys removed are the keys of those entries, and a stale pop changes
\* neither the map nor size.
C19_SnapshotMeansNoAccess ==
  /\ \A i \in 1..Len(list) :
       /\ list[i][1] = hist[Len(hist) - i + 1]
       /\ (list[i][2] = map[list[i][1]].counter) <=>
            (\A j \in (Len(hist) - i + 2)..Len(hist) : hist[j] # list[i][1])
  /\ IsPop =>
       /\ \A p \in Popped :
            (pre.list[p][2] = CounterAtPop(pre.list[p][1])) <=> NoGetSince(p)
       /\ DOMAIN pre.map \ DOMAIN map =
            {pre.list[p][1] : p \in {q \in Popped : NoGetSince(q)}}
       /\ \A k \in DOMAIN map \cap DOMAIN pre.map :
            k # call.key => map[k] = pre.map[k]
       /\ size = (pre.size - Cardinality(Cached(pre.map) \ DOMAIN map)) +
                 (IF IsGet /\ HasVal(map, call.key) /\ ~HasVal(pre.map, call.key)
                    THEN 1 ELSE 0)

\* a get on a full window pops a stale entry of another key, which stays
\* tracked with its value
C19_Witness ==
  /\ IsGet
  /\ Usize(Len(pre.list)) = pre.mem_len
  /\ LET b == pre.list[Len(pre.list)]
     IN  /\ b[1] # call.key
         /\ b[2] # pre.map[b[1]].counter
         /\ HasVal(map, b[1])
         /\ map[b[1]] = pre.map[b[1]]
  /\ size = pre.size

\* the position of the most recent request for key k before request i,
\* 0 if there is none
PrevPos(k, i) ==
  IF \E j \in 1..(i - 1) : hist[j] = k
    THEN CHOOSE j \in 1..(i - 1) :
           hist[j] = k /\ \A l \in (j + 1)..(i - 1) : hist[l] # k
    ELSE 0

\* a distance of d requests is at most the window length
WithinMemLen(d) == ~UsizeLt(mem_len, Usize(d))

\* the reference model, from the history alone: request i is a hit when the
\* two requests for its key before it exist and both gaps are within mem_len
RefHit(i) ==
  LET p1 == PrevPos(hist[i], i)
      p2 == PrevPos(hist[i], p1)
  IN  /\ p1 > 0
      /\ p2 > 0
      /\ WithinMemLen(i - p1)
      /\ WithinMemLen(p1 - p2)

\* the reference model: request i stores a value when it is no hit and the
\* request for its key before it exists within mem_len
RefStore(i) ==
  LET p1 == PrevPos(hist[i], i)
  IN  /\ ~RefHit(i)
      /\ p1 > 0
      /\ WithinMemLen(i - p1)

\* C20: with mem_len fixed and no clear_cache, every get_or_insert is a hit
\* exactly when the reference model says so, otherwise a miss, and it
\* stores a value exactly when the reference model says so.
C20_AgreesWithReference ==
  IsGet =>
    LET i == Len(hist)
        k == call.key
    IN  /\ RefHit(i) <=> (produced = 0)
        /\ RefHit(i) =>
             /\ HasVal(pre.map, k)
             /\ ret = pre.map[k].val
             /\ hits = pre.hits + 1
             /\ misses = pre.misses
        /\ ~RefHit(i) =>
             /\ ret = Some(Fresh)
             /\ hits = pre.hits
             /\ misses = pre.misses + 1
        /\ RefStore(i) <=> (~HasVal(pre.map, k) /\ HasVal(map, k))
        /\ RefStore(i) => map[k].val = Some(Fresh)
        /\ (~RefHit(i) /\ ~RefStore(i)) => ~HasVal(map, k)

\* with mem_len 3, requests 1, 4 and 7 are for the same key and no other
\* is: both gaps are exactly mem_len and request 7 is a hit
C20_Witness ==
  /\ IsGet
  /\ mem_len = Usize(3)
  /\ Len(hist) = 7
  /\ hist[1] = call.key
  /\ hist[4] = call.key
  /\ \A j \in {2, 3, 5, 6} : hist[j] # call.key
  /\ produced = 0

TypeOK ==
  /\ DOMAIN map \subseteq Keys
  /\ size \in Nat
  /\ Len(hist) <= MaxReqFixed
  /\ ~panicked
====
